---- MODULE Spec2Model ----
(***************************************************************************)
(* The rating / ranking recomputation engine of frisbeer-backend           *)
(* (djangofiles/frisbeer: signals.py, models.py, utils.py) as a state      *)
(* machine over the database rows it reads and writes.                     *)
(*                                                                         *)
(* Numbers.  Player.elo, Player.season_best, Player.score, Team.elo and    *)
(* Team.season_best are IntegerFields: a Python float assigned to one of   *)
(* them is stored as int(value), and every loop iteration of the source    *)
(* reads its rows back from the database.  The float expressions of the    *)
(* source are evaluated in fixed point (FIX = 10^7): ExpectedTable,        *)
(* Score2017Table and Score2018Table hold the source's expressions at the  *)
(* integer arguments the model can reach, and the integers stored from     *)
(* them agree with the float results for every argument in range.  The     *)
(* SQL integer division of the decay UPDATE truncates toward zero, as      *)
(* SQLite and PostgreSQL do.                                               *)
(***************************************************************************)
EXTENDS Integers, Sequences, FiniteSets, TLC

\* ------------------------------------------------------------------ bounds
NumPlayers == 3
NumSeasons == 2
MaxGames == 3
NumRanks == 5

Players == 1..NumPlayers
Seasons == 1..NumSeasons
Procs == {1, 2}

\* ------------------------------------------------------- program constants
PENDING == 0
READY == 1
PLAYED == 2
APPROVED == 3
Unassigned == 0
Team1 == 1
Team2 == 2
BaseElo == 1500
\* BACKUP_PENALTY_PERCENT = 22.45, counted in hundredths of a percent
BACKUP_PENALTY_PERCENT == 2245
\* settings.ELO_K
ELO_K == 32
FIX == 10 ^ 7

\* ------------------------------------------------------------- arithmetic
Abs(x) == IF x < 0 THEN -x ELSE x

Max(a, b) == IF a > b THEN a ELSE b

\* Integer division truncating toward zero (SQL integer "/", Python int()).
TruncDiv(a, b) == IF a >= 0 THEN a \div b ELSE -((-a) \div b)

\* ceil(a / b) for a >= 0, b > 0
CeilDiv(a, b) == (a + b - 1) \div b

RECURSIVE SumOver(_, _)
SumOver(f, S) ==
  IF S = {} THEN 0
  ELSE LET x == CHOOSE y \in S : TRUE IN f[x] + SumOver(f, S \ {x})

\* FIX / (1 + 10 ** (D / 400)) for D = 0, 1, ... (entry D + 1)
ExpectedTable ==
  <<
      5000000, 4985609, 4971218, 4956828, 4942438, 4928049, 4913662, 4899276,
      4884891, 4870509, 4856128, 4841750, 4827375, 4813002, 4798633, 4784267,
      4769904, 4755545, 4741191, 4726840, 4712494, 4698153, 4683817, 4669486,
      4655161, 4640841, 4626527, 4612219, 4597918, 4583623, 4569335, 4555054,
      4540781, 4526515, 4512257, 4498006, 4483765, 4469531, 4455306, 4441090,
      4426884, 4412686, 4398499, 4384321, 4370153, 4355995, 4341848, 4327712,
      4313586, 4299472, 4285369, 4271277, 4257198, 4243130, 4229075, 4215032,
      4201002, 4186985, 4172981, 4158990, 4145013, 4131050, 4117100, 4103165,
      4089244, 4075338, 4061446, 4047570, 4033708, 4019862, 4006032, 3992218,
      3978419, 3964637, 3950871, 3937122, 3923389, 3909674, 3895976, 3882295,
      3868632, 3854986, 3841359, 3827750, 3814159, 3800586, 3787033, 3773498,
      3759982, 3746486, 3733009, 3719552, 3706115, 3692697, 3679300, 3665923,
      3652567, 3639231, 3625916, 3612623, 3599350, 3586099, 3572869, 3559661,
      3546475, 3533312, 3520170, 3507051, 3493954, 3480880, 3467828, 3454800,
      3441795, 3428813, 3415855, 3402920, 3390009, 3377122, 3364259, 3351420,
      3338606, 3325816, 3313050, 3300310, 3287594, 3274904, 3262238, 3249598,
      3236983, 3224394, 3211831, 3199293, 3186782, 3174296, 3161837, 3149404,
      3136997, 3124618, 3112264, 3099938, 3087638, 3075366, 3063121, 3050903,
      3038712, 3026549, 3014414, 3002306, 2990226, 2978174, 2966150, 2954154,
      2942186, 2930247, 2918336, 2906454, 2894600, 2882775, 2870978, 2859211,
      2847472, 2835763, 2824083, 2812432, 2800810, 2789218, 2777655, 2766121,
      2754618, 2743144, 2731699, 2720285, 2708900, 2697546, 2686221, 2674927,
      2663663, 2652429, 2641226, 2630052, 2618910, 2607797, 2596716, 2585665,
      2574644, 2563655, 2552696, 2541768, 2530871, 2520005, 2509169, 2498365,
      2487592, 2476850, 2466139, 2455460, 2444811, 2434194, 2423608, 2413054,
      2402531, 2392039, 2381579, 2371150, 2360753, 2350387, 2340053, 2329751,
      2319480, 2309241, 2299033, 2288857, 2278713, 2268601, 2258520, 2248471,
      2238454, 2228469, 2218515, 2208594, 2198704, 2188846, 2179020, 2169226,
      2159463, 2149733, 2140034, 2130367, 2120732, 2111129, 2101558, 2092019,
      2082512, 2073036, 2063593, 2054181, 2044801, 2035453, 2026137, 2016853,
      2007600, 1998379, 1989191, 1980034, 1970908, 1961815, 1952753, 1943723,
      1934725, 1925758, 1916823, 1907920, 1899048, 1890208, 1881400, 1872623,
      1863878, 1855164, 1846482, 1837831, 1829212, 1820624, 1812067, 1803542,
      1795048, 1786585, 1778154, 1769754, 1761385, 1753047, 1744740, 1736464,
      1728220, 1720006, 1711824, 1703672, 1695551, 1687461, 1679402, 1671373,
      1663375, 1655408, 1647472, 1639566, 1631690, 1623845, 1616031, 1608247,
      1600493, 1592770, 1585076, 1577413, 1569780, 1562178, 1554605, 1547062,
      1539549, 1532066, 1524613, 1517189, 1509796
  >>

MaxDiff == Len(ExpectedTable) - 1

\* Ea = 1 / (1 + 10 ** ((Rb - Ra) / 400)), times FIX
ExpectedFix(my_elo, opponent_elo) ==
  LET D == opponent_elo - my_elo
  IN  IF D >= 0 THEN ExpectedTable[D + 1] ELSE FIX - ExpectedTable[(-D) + 1]

\* utils.calculate_elo_change, times FIX
calculate_elo_change(my_elo, opponent_elo, win) ==
  ELO_K * ((IF win THEN FIX ELSE 0) - ExpectedFix(my_elo, opponent_elo))

\* utils.calculate_team_elo: int(sum(elo) / len(players))
calculate_team_elo(eloOf, members) ==
  TruncDiv(SumOver(eloOf, members), Cardinality(members))

\* int(stored + change) for an integer stored value and a float change
StoreInt(stored, changeFix) == stored + (changeFix \div FIX)


\* ---------------------------------------------------------------- database
\* GameRules row shared by the seasons of the model (Game.rules resolves to
\* the season's game_rules).
GameRulesRow ==
  [min_players |-> 2, max_players |-> 3, min_rounds |-> 2, max_rounds |-> 3]

\* SeasonRules field defaults
DefaultSeasonRules ==
  [elo_decay |-> TRUE, score_algorithm |-> "elo",
   rank_statistic |-> "RW", rank_min_value |-> 5]

\* SeasonRules rows the current season may carry
SeasonRulesRows ==
  [elo_decay : {TRUE},
   score_algorithm : {"2017", "2018", "elo", "top_elo"},
   rank_statistic : {"RW", "GP", "GW"},
   rank_min_value : {2}]
    \cup {DefaultSeasonRules, [DefaultSeasonRules EXCEPT !.elo_decay = FALSE]}

\* Season.current(): the season with the latest start date not after today
CurrentSeason == NumSeasons

\* A Season row whose game_rules is NULL (it starts after today); season 0
\* stands for Game.season = NULL.
NoRulesSeason == NumSeasons + 1

VARIABLES
  games,        \* Game rows with their GamePlayerRelation rows, by primary key
  elo,          \* Player.elo
  season_best,  \* Player.season_best
  score,        \* Player.score
  rank,         \* Player.rank: 0 is NULL, i is the i-th Rank row
  teams,        \* Team rows with their TeamPlayerRelation rows
  gameteams,    \* GameTeamRelation: game -> <<team of side 1, team of side 2>>
  rules,        \* the current season's SeasonRules row
  pc,           \* where each running update_statistics call stands
  queue,        \* the games its loop has still to visit
  cursor,       \* update_elo's local "season" (0 is None)
  outcome,      \* its last call: "returned" (nothing to score), "running",
                \* "ok" or "raised"
  before,       \* the rating fields when its running or failed call began
  decays        \* how often its last update_elo ran _elo_decay

vars ==
  <<games, elo, season_best, score, rank, teams, gameteams, rules,
    pc, queue, cursor, outcome, before, decays>>

ratings == <<elo, season_best, score, rank, teams>>

\* --------------------------------------------------------------- Game rows
Side(g, t) == {p \in DOMAIN g.roster : g.roster[p] = t}

\* Game.rules, "self._rules or self.season.game_rules", gives a GameRules row:
\* no game of the model carries a ruleset of its own, so it does when the
\* game has a season and that season has game_rules.
\* For comparison: a ruleset is always found
RulesResolveAlways(g) == TRUE

RulesResolve(g) == g.season # 0 /\ g.season # NoRulesSeason

\* Game.can_score raises AttributeError: "self.state >= Game.APPROVED and
\* self.rules.min_rounds <= ..." reads self.rules once the state test passed.
CanScoreRaises(g) == g.state >= APPROVED /\ ~RulesResolve(g)

\* Game.can_score
can_score(g) ==
  LET players_count == Cardinality(DOMAIN g.roster)
      players_per_team == CeilDiv(players_count, 2)
      rounds_played == g.team1_score + g.team2_score
  IN  /\ g.state >= APPROVED
      /\ GameRulesRow.min_rounds <= rounds_played
      /\ rounds_played <= GameRulesRow.max_rounds
      /\ GameRulesRow.min_players <= players_count
      /\ players_count <= GameRulesRow.max_players
      /\ Cardinality(Side(g, Unassigned)) = 0
      /\ Cardinality(Side(g, Team1)) <= players_per_team
      /\ Cardinality(Side(g, Team2)) <= players_per_team

\* The ids of games gs, ascending by date:
\* Game.objects.filter(...).order_by("date")
\* For comparison: the ids in the order the rows were inserted
RECURSIVE OrderById(_, _)
OrderById(gs, ids) ==
  IF ids = {} THEN <<>>
  ELSE LET first == CHOOSE i \in ids : \A j \in ids : i <= j
       IN  <<first>> \o OrderById(gs, ids \ {first})

RECURSIVE OrderByDate(_, _)
OrderByDate(gs, ids) ==
  IF ids = {} THEN <<>>
  ELSE LET first == CHOOSE i \in ids : \A j \in ids : gs[i].date <= gs[j].date
       IN  <<first>> \o OrderByDate(gs, ids \ {first})

\* "if not game.can_score(): continue" at the head of a loop over q
RECURSIVE SkipUnscorable(_, _)
SkipUnscorable(gs, q) ==
  IF q # <<>> /\ ~CanScoreRaises(gs[Head(q)]) /\ ~can_score(gs[Head(q)])
  THEN SkipUnscorable(gs, Tail(q)) ELSE q

ApprovedIds(gs) == {i \in DOMAIN gs : gs[i].state = APPROVED}

\* ------------------------------------------------------------------ inputs
Rosters ==
  { (1 :> Team1 @@ 2 :> Team2),
    (1 :> Team1 @@ 2 :> Team2 @@ 3 :> Team1) }

Scores == { <<2, 0>>, <<1, 2>>, <<1, 0>> }

GameStates == {PLAYED, APPROVED}

Dates == 1..MaxGames

\* Histories of MaxGames games are explored under the default SeasonRules
\* and with scorable games only; shorter ones with every input.
WithinBounds(gs) ==
  \/ Len(gs) < MaxGames
  \/ /\ Len(gs) = MaxGames
     /\ rules = DefaultSeasonRules
     /\ \A i \in DOMAIN gs : can_score(gs[i])

\* ------------------------------------------------------------------- Init
NoRatings == <<>>

Init ==
  /\ games = <<>>
  /\ elo = [p \in Players |-> BaseElo]
  /\ season_best = [p \in Players |-> 0]
  /\ score = [p \in Players |-> 0]
  /\ rank = [p \in Players |-> 0]
  /\ teams = <<>>
  /\ gameteams = <<>>
  /\ rules \in SeasonRulesRows
  /\ pc = [p \in Procs |-> "idle"]
  /\ queue = [p \in Procs |-> <<>>]
  /\ cursor = [p \in Procs |-> 0]
  /\ outcome = [p \in Procs |-> "returned"]
  /\ before = [p \in Procs |-> NoRatings]
  /\ decays = [p \in Procs |-> 0]

\* ------------------------------------------------------ update_statistics
\* For comparison: the receiver without its test of can_score
update_statisticsUnguarded(self, gs, i) ==
  /\ pc' = [pc EXCEPT ![self] = "update_elo"]
  /\ outcome' = [outcome EXCEPT ![self] = "running"]

\* The post_save receiver as called for games[i]: it returns at once unless
\* the saved game can be scored; an exception of can_score leaves it.
update_statistics(self, gs, i) ==
  IF CanScoreRaises(gs[i])
  THEN /\ pc' = pc
       /\ outcome' = [outcome EXCEPT ![self] = "raised"]
  ELSE IF can_score(gs[i])
  THEN /\ pc' = [pc EXCEPT ![self] = "update_elo"]
       /\ outcome' = [outcome EXCEPT ![self] = "running"]
  ELSE /\ pc' = pc
       /\ outcome' = [outcome EXCEPT ![self] = "returned"]

\* The rating fields as the call for games[i] finds them
Snapshot(self, gs, i) ==
  before' = [before EXCEPT ![self] =
               IF CanScoreRaises(gs[i]) \/ can_score(gs[i]) THEN ratings ELSE NoRatings]

\* A new Game row is saved, with its players.
CreateGame(self, g) ==
  /\ \A p \in Procs : pc[p] = "idle"
  /\ WithinBounds(Append(games, g))
  /\ \A i \in DOMAIN games : games[i].date # g.date
  /\ games' = Append(games, g)
  /\ gameteams' = Append(gameteams, <<0, 0>>)
  /\ update_statistics(self, games', Len(games'))
  /\ Snapshot(self, games', Len(games'))
  /\ UNCHANGED <<elo, season_best, score, rank, teams, rules, queue, cursor, decays>>

\* An existing Game row is saved with a state (possibly the one it has);
\* Game.save gives a game without season the current one.
SaveGame(self, i, st) ==
  /\ \A p \in Procs : pc[p] = "idle"
  /\ i \in DOMAIN games
  /\ games' = [games EXCEPT ![i].state = st,
                            ![i].season = IF @ = 0 THEN CurrentSeason ELSE @]
  /\ WithinBounds(games')
  /\ update_statistics(self, games', i)
  /\ Snapshot(self, games', i)
  /\ UNCHANGED <<elo, season_best, score, rank, teams, gameteams, rules, queue, cursor, decays>>

\* A Game row is saved unchanged while another call may still be running.
Resave(self, i) ==
  /\ pc[self] = "idle"
  /\ i \in DOMAIN games
  /\ update_statistics(self, games, i)
  /\ UNCHANGED <<games, elo, season_best, score, rank, teams, gameteams, rules,
                 queue, cursor, before, decays>>

\* -------------------------------------------------------------- update_elo
\* _elo_decay: UPDATE player SET elo = (elo - 1500) / 2 + 1500, season_best = 0
\* For comparison: the same division rounding down instead of toward zero
DecayedEloFloor(e) == ((e - BaseElo) \div 2) + BaseElo

\* (F('elo') - 1500) / 2 + 1500 on an integer column
DecayedElo(e) == TruncDiv(e - BaseElo, 2) + BaseElo

_elo_decay ==
  /\ elo' = [p \in Players |-> DecayedElo(elo[p])]
  /\ season_best' = [p \in Players |-> 0]

\* Lines 42-46: the reset, and the approved games in date order.
EloReset(self) ==
  /\ pc[self] = "update_elo"
  /\ elo' = [p \in Players |-> BaseElo]
  /\ season_best' = [p \in Players |-> 0]
  /\ queue' = [queue EXCEPT ![self] =
                  SkipUnscorable(games, OrderByDate(games, ApprovedIds(games)))]
  /\ cursor' = [cursor EXCEPT ![self] = 0]
  /\ decays' = [decays EXCEPT ![self] = 0]
  /\ pc' = [pc EXCEPT ![self] = "elo_loop"]
  /\ UNCHANGED <<games, score, rank, teams, gameteams, rules, outcome, before>>


\* Lines 54-57: the decay before the first game of another season.
EloDecay(self) ==
  /\ pc[self] = "elo_loop"
  /\ queue[self] # <<>>
  /\ LET game == games[Head(queue[self])]
     IN  /\ ~CanScoreRaises(game)
         /\ cursor[self] # 0
         /\ game.season # cursor[self]
         /\ _elo_decay
         /\ cursor' = [cursor EXCEPT ![self] = game.season]
  /\ decays' = [decays EXCEPT ![self] = @ + 1]
  /\ UNCHANGED <<games, score, rank, teams, gameteams, rules, pc, queue, outcome, before>>

\* Lines 59-67: one signed change for the game, times FIX
team1_elo_change(s1, s2, elo1, elo2) ==
  s1 * calculate_elo_change(elo1, elo2, TRUE)
    + s2 * calculate_elo_change(elo1, elo2, FALSE)

\* Lines 61-67: the pregame elos are truncated means of the stored elos
GameEloChange(game, eloOf) ==
  team1_elo_change(game.team1_score, game.team2_score,
                   calculate_team_elo(eloOf, Side(game, Team1)),
                   calculate_team_elo(eloOf, Side(game, Team2)))

\* Lines 69-80: player.elo += / -= change, season_best, player.save()
EloAfterGame(game, eloOf, p) ==
  IF p \in Side(game, Team1) THEN StoreInt(eloOf[p], GameEloChange(game, eloOf))
  ELSE IF p \in Side(game, Team2) THEN StoreInt(eloOf[p], -GameEloChange(game, eloOf))
  ELSE eloOf[p]

\* For comparison: season_best takes every new elo, without the comparison
EloGameLatest(self) ==
  /\ pc[self] = "elo_loop"
  /\ queue[self] # <<>>
  /\ LET game == games[Head(queue[self])]
     IN  /\ ~CanScoreRaises(game)
         /\ cursor[self] = 0 \/ game.season = cursor[self]
         /\ elo' = [p \in Players |-> EloAfterGame(game, elo, p)]
         /\ season_best' =
              [p \in Players |->
                 IF p \in Side(game, Team1) \cup Side(game, Team2)
                 THEN EloAfterGame(game, elo, p)
                 ELSE season_best[p]]
         /\ cursor' = [cursor EXCEPT ![self] = game.season]
  /\ queue' = [queue EXCEPT ![self] = SkipUnscorable(games, Tail(@))]
  /\ UNCHANGED <<games, score, rank, teams, gameteams, rules, pc, outcome, before, decays>>

EloGame(self) ==
  /\ pc[self] = "elo_loop"
  /\ queue[self] # <<>>
  /\ LET game == games[Head(queue[self])]
     IN  /\ ~CanScoreRaises(game)
         /\ cursor[self] = 0 \/ game.season = cursor[self]
         /\ elo' = [p \in Players |-> EloAfterGame(game, elo, p)]
         /\ season_best' =
              [p \in Players |->
                 IF p \in Side(game, Team1) \cup Side(game, Team2)
                 THEN Max(season_best[p], EloAfterGame(game, elo, p))
                 ELSE season_best[p]]
         /\ cursor' = [cursor EXCEPT ![self] = game.season]
  /\ queue' = [queue EXCEPT ![self] = SkipUnscorable(games, Tail(@))]
  /\ UNCHANGED <<games, score, rank, teams, gameteams, rules, pc, outcome, before, decays>>

\* Line 49: game.can_score() raises, and the exception leaves update_elo and
\* update_statistics with whatever the loop has written so far.
EloRaise(self) ==
  /\ pc[self] = "elo_loop"
  /\ queue[self] # <<>>
  /\ CanScoreRaises(games[Head(queue[self])])
  /\ pc' = [pc EXCEPT ![self] = "idle"]
  /\ outcome' = [outcome EXCEPT ![self] = "raised"]
  /\ UNCHANGED <<games, elo, season_best, score, rank, teams, gameteams, rules,
                 queue, cursor, before, decays>>

\* For comparison: the decay after the loop whatever the last season was
EloEndAlways(self) ==
  /\ pc[self] = "elo_loop"
  /\ queue[self] = <<>>
  /\ _elo_decay
  /\ decays' = [decays EXCEPT ![self] = @ + 1]
  /\ pc' = [pc EXCEPT ![self] = "update_score"]
  /\ UNCHANGED <<games, score, rank, teams, gameteams, rules, queue, cursor,
                 outcome, before>>

\* Lines 82-84: the decay after the loop.
EloEnd(self) ==
  /\ pc[self] = "elo_loop"
  /\ queue[self] = <<>>
  /\ IF cursor[self] # CurrentSeason
     THEN /\ _elo_decay
          /\ decays' = [decays EXCEPT ![self] = @ + 1]
     ELSE UNCHANGED <<elo, season_best, decays>>
  /\ pc' = [pc EXCEPT ![self] = "update_score"]
  /\ UNCHANGED <<games, score, rank, teams, gameteams, rules, queue, cursor,
                 outcome, before>>

\* ------------------------------------------------------------ update_score
\* FIX * (1 - exp(-games_played / 4)) for games_played = 0, 1, ...
Score2017Table ==
  << 0, 2211992, 3934693, 5276334, 6321206, 7134952, 7768698 >>

\* FIX * (1 / (1 + exp(3 - games_played / 2.5))) for games_played = 0, 1, ...
Score2018Table ==
  << 474259, 691384, 997505, 1418511, 1978161, 2689414, 3543437 >>

\* int(win_rate * factor * 1000) with win_rate = rounds_won / rounds_played
WinRateScore(rounds_played, rounds_won, factorFix) ==
  IF rounds_played = 0 THEN 0
  ELSE (rounds_won * factorFix) \div (rounds_played * (FIX \div 1000))

score_2017(games_played, rounds_played, rounds_won) ==
  WinRateScore(rounds_played, rounds_won, Score2017Table[games_played + 1])

score_2018(games_played, rounds_played, rounds_won) ==
  rounds_won + WinRateScore(rounds_played, rounds_won, Score2018Table[games_played + 1])

\* SeasonRules.algorithm, as Season.score calls it
SeasonScore(r, games_played, rounds_played, rounds_won, p) ==
  CASE r.score_algorithm = "2017" -> score_2017(games_played, rounds_played, rounds_won)
    [] r.score_algorithm = "2018" -> score_2018(games_played, rounds_played, rounds_won)
    [] r.score_algorithm = "top_elo" -> season_best[p]
    [] OTHER -> elo[p]

\* Line 91: Game.objects.filter(season_id=season.id, state=Game.APPROVED)
ScoreGames(gs) ==
  {i \in DOMAIN gs : gs[i].season = CurrentSeason /\ gs[i].state = APPROVED}

\* Lines 96-106: the counters of player p over the games ids
Played(gs, ids, p) ==
  {i \in ids : p \in Side(gs[i], Team1) \cup Side(gs[i], Team2)}

CountGames(gs, ids, p) == Cardinality(Played(gs, ids, p))

CountRounds(gs, ids, p) ==
  SumOver([i \in DOMAIN gs |-> gs[i].team1_score + gs[i].team2_score],
          Played(gs, ids, p))

CountWins(gs, ids, p) ==
  SumOver([i \in DOMAIN gs |->
             IF p \in Side(gs[i], Team1) THEN gs[i].team1_score
             ELSE gs[i].team2_score],
          Played(gs, ids, p))

\* Lines 94-116: every score is reset, then set for the players of the dict
UpdatedScore(gs, p) ==
  LET ids == ScoreGames(gs)
  IN  IF Played(gs, ids, p) = {} THEN 0
      ELSE SeasonScore(rules, CountGames(gs, ids, p), CountRounds(gs, ids, p),
                       CountWins(gs, ids, p), p)

UpdateScore(self) ==
  /\ pc[self] = "update_score"
  /\ score' = [p \in Players |-> UpdatedScore(games, p)]
  /\ pc' = [pc EXCEPT ![self] = "calculate_ranks"]
  /\ UNCHANGED <<games, elo, season_best, rank, teams, gameteams, rules,
                 queue, cursor, outcome, before, decays>>

\* --------------------------------------------------------- calculate_ranks
\* Lines 167-171: rank_distribution has the keys -3 + i * 6 / (len(ranks) - 2)
\* for i in range(len(ranks) - 2); key i carries ranks[i], here rank i + 1.
Thresholds == 0..(NumRanks - 3)

\* The numerator of key i over the denominator NumRanks - 2
ThresholdNum(i) == 6 * i - 3 * (NumRanks - 2)

\* Lines 180-195: the value of the season's statistic for player p
SeasonRows(gs, p) ==
  {i \in DOMAIN gs : gs[i].season = CurrentSeason /\ p \in DOMAIN gs[i].roster}

StatValue(gs, stat, p) ==
  IF stat = "GP" THEN Cardinality(SeasonRows(gs, p))
  ELSE SumOver([i \in DOMAIN gs |->
                  IF gs[i].roster[p] = Team1 THEN gs[i].team1_score
                  ELSE IF gs[i].roster[p] = Team2 THEN gs[i].team2_score
                  ELSE 0],
               SeasonRows(gs, p))

\* Lines 197-198
Qualifying(gs, r) ==
  {p \in Players : StatValue(gs, r.rank_statistic, p) >= r.rank_min_value}

\* Lines 207-212 and 221: scipy.stats.zscore is (x - mean) / std over the
\* scores of the ranked players Q, and 0.0 for all when the scores are equal.
\* With n players, S the sum of the scores and W the sum of (n * x - S)^2,
\* the z-score of x is (n * x - S) * sqrt(n) / sqrt(W).  ZAboveNum says
\* whether player p's z-score is greater than num / (NumRanks - 2).
ZAboveNum(scoreOf, Q, p, num) ==
  LET n == Cardinality(Q)
      S == SumOver(scoreOf, Q)
      W == SumOver([q \in Q |-> (n * scoreOf[q] - S) * (n * scoreOf[q] - S)], Q)
      L == (n * scoreOf[p] - S) * (NumRanks - 2)
  IN  IF W = 0 THEN 0 > num
      ELSE IF L >= 0 /\ num < 0 THEN TRUE
      ELSE IF L >= 0 THEN L * L * n > num * num * W
      ELSE IF num >= 0 THEN FALSE
      ELSE L * L * n < num * num * W

\* For comparison: a walk that stops at the first key the z-score is above
RankWalkFirst(scoreOf, Q, p, i, found) ==
  IF i \in Thresholds /\ ZAboveNum(scoreOf, Q, p, ThresholdNum(i))
  THEN i + 1
  ELSE found

\* Lines 219-224: walk the keys upward while the z-score is above them
RECURSIVE RankWalk(_, _, _, _, _)
RankWalk(scoreOf, Q, p, i, found) ==
  IF i \in Thresholds /\ ZAboveNum(scoreOf, Q, p, ThresholdNum(i))
  THEN RankWalk(scoreOf, Q, p, i + 1, i + 1)
  ELSE found

\* Lines 216-227: the rank of player p of the ranked players Q
RankOf(scoreOf, Q, p) == RankWalk(scoreOf, Q, p, 0, 0)

\* For comparison: a classification that ranks every player with the rest
AssignedRankUnfiltered(gs, r, scoreOf, p) ==
  IF Qualifying(gs, r) = {} THEN 0 ELSE RankOf(scoreOf, Players, p)

\* Lines 175 and 200-227: the rank calculate_ranks leaves player p with
AssignedRank(gs, r, scoreOf, p) ==
  IF p \in Qualifying(gs, r) THEN RankOf(scoreOf, Qualifying(gs, r), p) ELSE 0

\* What stops calculate_ranks: 6 / (len(ranks) - 2) with two ranks (line 169),
\* and gw1 + gw2, an int plus a QuerySet (line 189).
RanksRaiseEarly == NumRanks - 2 = 0

RanksRaiseLate(r) == r.rank_statistic = "GW"

Raise(self) ==
  /\ pc' = [pc EXCEPT ![self] = "idle"]
  /\ outcome' = [outcome EXCEPT ![self] = "raised"]

CalculateRanks(self) ==
  /\ pc[self] = "calculate_ranks"
  /\ IF RanksRaiseEarly
     THEN /\ Raise(self)
          /\ UNCHANGED rank
     ELSE IF RanksRaiseLate(rules)
     THEN /\ Raise(self)
          /\ rank' = [p \in Players |-> 0]
     ELSE /\ rank' = [p \in Players |-> AssignedRank(games, rules, score, p)]
          /\ pc' = [pc EXCEPT ![self] = "update_team_score"]
          /\ UNCHANGED outcome
  /\ UNCHANGED <<games, elo, season_best, score, teams, gameteams, rules,
                 queue, cursor, before, decays>>

\* ------------------------------------------------------- update_team_score
\* Team.find_or_create: the teams of the season that hold every given player
Matching(ts, season, players) ==
  {i \in DOMAIN ts : ts[i].season = season /\ players \subseteq ts[i].players}

\* teams_queryset.order_by('virtual').first(): a non-virtual team before a
\* virtual one; the order among equals is the database's.
Found(ts, season, players) ==
  {i \in Matching(ts, season, players) :
     \A j \in Matching(ts, season, players) : ts[i].virtual => ts[j].virtual}

NewTeam(season, players) ==
  [season |-> season, players |-> players, backup |-> {},
   elo |-> BaseElo, season_best |-> 0, virtual |-> TRUE]

\* The rows find_or_create may return: one of Found, or the row it appends
find_or_create(ts, season, players) ==
  IF Matching(ts, season, players) # {} THEN Found(ts, season, players)
  ELSE {Len(ts) + 1}

WithTeam(ts, t, season, players) ==
  IF t > Len(ts) THEN Append(ts, NewTeam(season, players)) ELSE ts

\* change * (1 - BACKUP_PENALTY_PERCENT / 100)
Penalized(changeFix) ==
  LET factor == 10000 - BACKUP_PENALTY_PERCENT
  IN  (changeFix \div 10000) * factor + ((changeFix % 10000) * factor) \div 10000

\* Lines 137-148: the two changes <<team1_elo_change, team2_elo_change>>
TeamChanges(game, team1, team2) ==
  LET change == team1_elo_change(game.team1_score, game.team2_score,
                                 team1.elo, team2.elo)
      winner_is_1 == game.team1_score > game.team2_score
      winning_team == IF winner_is_1 THEN team1 ELSE team2
  IN  IF winning_team.backup # {}
      THEN IF winner_is_1 /\ change > 0 THEN <<Penalized(change), -change>>
           ELSE IF -change > 0 THEN <<change, Penalized(-change)>>
           ELSE <<change, -change>>
      ELSE <<change, -change>>

\* Lines 150-157: team.elo += change, season_best, team.save()
TeamAfter(team, changeFix) ==
  [team EXCEPT !.elo = StoreInt(team.elo, changeFix),
               !.season_best = Max(team.season_best, StoreInt(team.elo, changeFix))]

\* Line 123: the rows left by Team.objects.filter(virtual=True).delete(), and
\* where each row goes (0: deleted; GameTeamRelation.team is SET_NULL)
KeptTeams(ts) == SelectSeq(ts, LAMBDA t : ~t.virtual)

NewIndex(ts, i) ==
  IF i = 0 \/ ts[i].virtual THEN 0
  ELSE Cardinality({j \in 1..i : ~ts[j].virtual})

\* Line 126
TeamGames(gs) ==
  {i \in DOMAIN gs : gs[i].season = CurrentSeason /\ gs[i].state = APPROVED}

\* Lines 123-126
TeamReset(self) ==
  /\ pc[self] = "update_team_score"
  /\ teams' = [i \in DOMAIN KeptTeams(teams) |->
                 [KeptTeams(teams)[i] EXCEPT !.elo = BaseElo, !.season_best = 0]]
  /\ gameteams' = [g \in DOMAIN gameteams |->
                     <<NewIndex(teams, gameteams[g][1]), NewIndex(teams, gameteams[g][2])>>]
  /\ queue' = [queue EXCEPT ![self] =
                  SkipUnscorable(games, OrderByDate(games, TeamGames(games)))]
  /\ pc' = [pc EXCEPT ![self] = "team_loop"]
  /\ UNCHANGED <<games, elo, season_best, score, rank, rules, cursor, outcome,
                 before, decays>>

\* Lines 131-157 for the game at the head of the loop.  GameTeamRelation is
\* unique in (team, game): update_or_create raises IntegrityError when the
\* game's other side already carries the team.
TeamGame(self) ==
  /\ pc[self] = "team_loop"
  /\ queue[self] # <<>>
  /\ LET g == Head(queue[self])
         game == games[g]
         side1 == Side(game, Team1)
         side2 == Side(game, Team2)
     IN  \E t1 \in find_or_create(teams, CurrentSeason, side1) :
           LET ts1 == WithTeam(teams, t1, CurrentSeason, side1)
           IN  \E t2 \in find_or_create(ts1, CurrentSeason, side2) :
                 LET ts2 == WithTeam(ts1, t2, CurrentSeason, side2)
                     changes == TeamChanges(game, ts2[t1], ts2[t2])
                 IN  IF gameteams[g][2] = t1
                     THEN /\ Raise(self)
                          /\ teams' = ts2
                          /\ UNCHANGED <<gameteams, queue>>
                     ELSE IF t2 = t1
                     THEN /\ Raise(self)
                          /\ teams' = ts2
                          /\ gameteams' = [gameteams EXCEPT ![g] = <<t1, @[2]>>]
                          /\ UNCHANGED queue
                     ELSE /\ teams' = [ts2 EXCEPT ![t1] = TeamAfter(@, changes[1]),
                                                  ![t2] = TeamAfter(@, changes[2])]
                          /\ gameteams' = [gameteams EXCEPT ![g] = <<t1, t2>>]
                          /\ queue' = [queue EXCEPT ![self] = SkipUnscorable(games, Tail(@))]
                          /\ UNCHANGED <<pc, outcome>>
  /\ UNCHANGED <<games, elo, season_best, score, rank, rules, cursor, before, decays>>

\* Team.find_or_create for side 1 of the game at the head of the loop, in
\* the two database statements it is when it finds no team: the query of
\* lines 144-147 comes back empty, and lines 151-152 insert the team.  Other
\* calls may run between the two.  TeamGame then goes on with the game.
TeamLookup(self) ==
  /\ pc[self] = "team_loop"
  /\ queue[self] # <<>>
  /\ Matching(teams, CurrentSeason, Side(games[Head(queue[self])], Team1)) = {}
  /\ pc' = [pc EXCEPT ![self] = "team_create"]
  /\ UNCHANGED <<games, elo, season_best, score, rank, teams, gameteams, rules,
                 queue, cursor, outcome, before, decays>>

TeamCreate(self) ==
  /\ pc[self] = "team_create"
  /\ teams' = Append(teams, NewTeam(CurrentSeason, Side(games[Head(queue[self])], Team1)))
  /\ pc' = [pc EXCEPT ![self] = "team_loop"]
  /\ UNCHANGED <<games, elo, season_best, score, rank, gameteams, rules,
                 queue, cursor, outcome, before, decays>>

\* update_team_score, and with it update_statistics, returns.
TeamEnd(self) ==
  /\ pc[self] = "team_loop"
  /\ queue[self] = <<>>
  /\ pc' = [pc EXCEPT ![self] = "idle"]
  /\ outcome' = [outcome EXCEPT ![self] = "ok"]
  /\ before' = [before EXCEPT ![self] = NoRatings]
  /\ UNCHANGED <<games, elo, season_best, score, rank, teams, gameteams, rules,
                 queue, cursor, decays>>

NewGames ==
  {g \in [date : Dates, season : Seasons, state : GameStates,
          team1_score : 0..2, team2_score : 0..2, roster : Rosters] :
     <<g.team1_score, g.team2_score>> \in Scores}

\* ------------------------------------------------------ create_equal_teams
\* The iteration order of a set of Player objects: a Player hashes as its
\* primary key, and CPython iterates a small set of small integers ascending
RECURSIVE SetOrder(_)
SetOrder(S) ==
  IF S = {} THEN <<>>
  ELSE LET first == CHOOSE x \in S : \A y \in S : x <= y
       IN  <<first>> \o SetOrder(S \ {first})

\* itertools.combinations(s, k), in the order it yields them
RECURSIVE Combinations(_, _)
Combinations(s, k) ==
  IF k = 0 THEN << <<>> >>
  ELSE IF Len(s) < k THEN <<>>
  ELSE LET withHead == Combinations(Tail(s), k - 1)
       IN  [i \in 1..Len(withHead) |-> <<Head(s)>> \o withHead[i]]
             \o Combinations(Tail(s), k)

Range(s) == {s[i] : i \in DOMAIN s}

\* Lines 42-46: one entry (abs(elo1 - elo2), team1, team2) per combination
elo_list(eloOf, players) ==
  LET possibilities == Combinations(SetOrder(players), Cardinality(players) \div 2)
  IN  [i \in 1..Len(possibilities) |->
         LET team1 == Range(possibilities[i])
             team2 == players \ team1
         IN  <<Abs(calculate_team_elo(eloOf, team1) - calculate_team_elo(eloOf, team2)),
               team1, team2>>]

\* For comparison: the last of the entries with the smallest key
LastMinimum(l) ==
  l[CHOOSE i \in DOMAIN l :
      /\ \A j \in DOMAIN l : l[i][1] <= l[j][1]
      /\ \A j \in DOMAIN l : l[j][1] = l[i][1] => j <= i]

\* Line 47: sorted(elo_list, key=itemgetter(0))[0]; sorted is stable
FirstMinimum(l) ==
  l[CHOOSE i \in DOMAIN l :
      /\ \A j \in DOMAIN l : l[i][1] <= l[j][1]
      /\ \A j \in DOMAIN l : l[j][1] = l[i][1] => i <= j]

create_equal_teams(eloOf, players) == FirstMinimum(elo_list(eloOf, players))

\* Game.create_teams: the players of game i are put on the two sides, and
\* the game is saved.
create_teams(self, i) ==
  /\ \A p \in Procs : pc[p] = "idle"
  /\ i \in DOMAIN games
  /\ LET ideal_teams == create_equal_teams(elo, DOMAIN games[i].roster)
     IN  games' = [games EXCEPT ![i].roster =
                     [p \in DOMAIN @ |->
                        IF p \in ideal_teams[2] THEN Team1
                        ELSE IF p \in ideal_teams[3] THEN Team2
                        ELSE @[p]]]
  /\ update_statistics(self, games', i)
  /\ Snapshot(self, games', i)
  /\ UNCHANGED <<elo, season_best, score, rank, teams, gameteams, rules, queue,
                 cursor, decays>>

\* The teams of game i are taken back (GameSerializer.update with no teams).
ClearTeams(self, i) ==
  /\ \A p \in Procs : pc[p] = "idle"
  /\ i \in DOMAIN games
  /\ \E p \in DOMAIN games[i].roster : games[i].roster[p] # Unassigned
  /\ games' = [games EXCEPT ![i].roster = [p \in DOMAIN @ |-> Unassigned]]
  /\ UNCHANGED <<elo, season_best, score, rank, teams, gameteams, rules, pc,
                 queue, cursor, outcome, before, decays>>

\* ----------------------------------------------- the classification alone
\* Lines 207-227 applied to a list of ranked players given with their scores
ClassifyRanked ==
  /\ pc[1] = "idle"
  /\ rank' = [p \in DOMAIN score |-> RankOf(score, DOMAIN score, p)]
  /\ pc' = [pc EXCEPT ![1] = "classified"]
  /\ UNCHANGED <<games, elo, season_best, score, teams, gameteams, rules,
                 queue, cursor, outcome, before, decays>>

\* ---------------------------------------------------- one request at a time
Next ==
  \/ \E g \in NewGames : CreateGame(1, g)
  \/ \E i \in 1..MaxGames, st \in GameStates : SaveGame(1, i, st)
  \/ EloReset(1)
  \/ EloDecay(1)
  \/ EloGame(1)
  \/ EloEnd(1)
  \/ UpdateScore(1)
  \/ CalculateRanks(1)
  \/ TeamReset(1)
  \/ TeamGame(1)
  \/ TeamEnd(1)

Spec == Init /\ [][Next]_vars

\* ------------------------------------------------- two requests in parallel
\* Two workers serve saves of the same games; nothing in update_statistics
\* takes a lock or opens a transaction, so their statements interleave.
InitConc == Init /\ rules = DefaultSeasonRules

NextConc ==
  \/ \E g \in NewGames :
       /\ Len(games) < MaxGames - 1
       /\ can_score(g)
       /\ g.date = Len(games) + 1
       /\ CreateGame(1, g)
  \/ \E self \in Procs, i \in 1..MaxGames : Resave(self, i)
  \/ \E self \in Procs : EloReset(self)
  \/ \E self \in Procs : EloDecay(self)
  \/ \E self \in Procs : EloGame(self)
  \/ \E self \in Procs : EloEnd(self)
  \/ \E self \in Procs : UpdateScore(self)
  \/ \E self \in Procs : CalculateRanks(self)
  \/ \E self \in Procs : TeamReset(self)
  \/ \E self \in Procs : TeamGame(self)
  \/ \E self \in Procs : TeamEnd(self)

SpecConc == InitConc /\ [][NextConc]_vars

\* ------------------- two requests at a time, find_or_create in two statements
\* One game of the current season, saved again and again by two requests
NextFind ==
  \/ \E g \in NewGames :
       /\ games = <<>>
       /\ can_score(g)
       /\ g.date = 1
       /\ g.season = CurrentSeason
       /\ CreateGame(1, g)
  \/ \E self \in Procs : Resave(self, 1)
  \/ \E self \in Procs : EloReset(self)
  \/ \E self \in Procs : EloGame(self)
  \/ \E self \in Procs : EloEnd(self)
  \/ \E self \in Procs : UpdateScore(self)
  \/ \E self \in Procs : CalculateRanks(self)
  \/ \E self \in Procs : TeamReset(self)
  \/ \E self \in Procs : TeamLookup(self)
  \/ \E self \in Procs : TeamCreate(self)
  \/ \E self \in Procs : TeamGame(self)
  \/ \E self \in Procs : TeamEnd(self)

SpecFind == InitConc /\ [][NextFind]_vars

\* ------------------------------------- one request at a time, named teams
\* Teams made in the admin site: not virtual, some members flagged backup
AdminTeamRows ==
  {[season |-> CurrentSeason, players |-> t.players, backup |-> t.backup,
    elo |-> BaseElo, season_best |-> 0, virtual |-> FALSE] :
     t \in {x \in [players : {{1}, {2}, {1, 3}}, backup : SUBSET Players] :
              x.backup \subseteq x.players}}

AdminTeams ==
  {<<>>} \cup {<<a>> : a \in AdminTeamRows}
         \cup {<<a, b>> : a \in AdminTeamRows, b \in AdminTeamRows}

TeamScores == { <<2, 0>>, <<2, 1>>, <<1, 2>>, <<1, 1>> }

InitTeams ==
  /\ games = <<>>
  /\ elo = [p \in Players |-> BaseElo]
  /\ season_best = [p \in Players |-> 0]
  /\ score = [p \in Players |-> 0]
  /\ rank = [p \in Players |-> 0]
  /\ teams \in AdminTeams
  /\ gameteams = <<>>
  /\ rules = DefaultSeasonRules
  /\ pc = [p \in Procs |-> "idle"]
  /\ queue = [p \in Procs |-> <<>>]
  /\ cursor = [p \in Procs |-> 0]
  /\ outcome = [p \in Procs |-> "returned"]
  /\ before = [p \in Procs |-> NoRatings]
  /\ decays = [p \in Procs |-> 0]

\* Approved games of the current season, saved in the order of their dates
NextTeams ==
  \/ \E r \in Rosters, sc \in TeamScores :
       /\ Len(games) < MaxGames - 1
       /\ CreateGame(1, [date |-> Len(games) + 1, season |-> CurrentSeason,
                         state |-> APPROVED, team1_score |-> sc[1],
                         team2_score |-> sc[2], roster |-> r])
  \/ EloReset(1)
  \/ EloGame(1)
  \/ EloEnd(1)
  \/ UpdateScore(1)
  \/ CalculateRanks(1)
  \/ TeamReset(1)
  \/ TeamGame(1)
  \/ TeamEnd(1)

SpecTeams == InitTeams /\ [][NextTeams]_vars

\* --------------------------------------------- games without a ruleset
\* The Season row 1 is deleted: Game.season is on_delete=SET_NULL, an UPDATE
\* of the games that sends no post_save.
DeleteSeason ==
  /\ \A p \in Procs : pc[p] = "idle"
  /\ \E i \in DOMAIN games : games[i].season = 1
  /\ games' = [i \in DOMAIN games |->
                 IF games[i].season = 1
                 THEN [games[i] EXCEPT !.season = 0] ELSE games[i]]
  /\ UNCHANGED <<elo, season_best, score, rank, teams, gameteams, rules, pc,
                 queue, cursor, outcome, before, decays>>

\* Games of player 1 against player 2, also for a season without game_rules
RulesGames ==
  [date : Dates, season : {1, CurrentSeason, NoRulesSeason},
   state : GameStates, team1_score : {2}, team2_score : {0},
   roster : {(1 :> Team1 @@ 2 :> Team2)}]

NextRules ==
  \/ \E g \in RulesGames :
       /\ Len(games) < MaxGames - 1
       /\ g.season = 1 => \A i \in DOMAIN games : games[i].season # 0
       /\ CreateGame(1, g)
  \/ \E i \in 1..MaxGames, st \in GameStates : SaveGame(1, i, st)
  \/ DeleteSeason
  \/ EloReset(1)
  \/ EloDecay(1)
  \/ EloGame(1)
  \/ EloRaise(1)
  \/ EloEnd(1)
  \/ UpdateScore(1)
  \/ CalculateRanks(1)
  \/ TeamReset(1)
  \/ TeamGame(1)
  \/ TeamEnd(1)

SpecRules == InitConc /\ [][NextRules]_vars

\* ------------------------------------------------- games that cannot score
\* PlayerInGameViewSet: a GamePlayerRelation row of game i is given another
\* side. No Game is saved and the relation is not written through
\* Game.players, so neither post_save of Game nor m2m_changed is sent.
SetTeam(i, p, t) ==
  /\ \A q \in Procs : pc[q] = "idle"
  /\ i \in DOMAIN games
  /\ p \in DOMAIN games[i].roster
  /\ games[i].roster[p] # t
  /\ games' = [games EXCEPT ![i].roster[p] = t]
  /\ UNCHANGED <<elo, season_best, score, rank, teams, gameteams, rules, pc,
                 queue, cursor, outcome, before, decays>>

\* Games of the current season with too few, too many or unassigned players
\* and with too few or too many rounds, besides scorable ones
EditGames ==
  [date : Dates, season : {CurrentSeason}, state : GameStates,
   team1_score : {1, 2}, team2_score : {0, 2},
   roster : {(1 :> Team1 @@ 2 :> Team2), (1 :> Team1 @@ 2 :> Unassigned),
             (1 :> Team1)}]

NextEdit ==
  \/ \E g \in EditGames :
       /\ Len(games) < MaxGames - 1
       /\ g.date = Len(games) + 1
       /\ CreateGame(1, g)
  \/ \E i \in 1..MaxGames, st \in GameStates : SaveGame(1, i, st)
  \/ \E i \in 1..MaxGames, p \in Players, t \in {Unassigned, Team1, Team2} :
       SetTeam(i, p, t)
  \/ EloReset(1)
  \/ EloGame(1)
  \/ EloEnd(1)
  \/ UpdateScore(1)
  \/ CalculateRanks(1)
  \/ TeamReset(1)
  \/ TeamGame(1)
  \/ TeamEnd(1)

SpecEdit == InitConc /\ [][NextEdit]_vars

\* ------------------------------------------ classification of given scores
PopSize == 11
MaxRankScore == 5

RankedPlayers == 1..PopSize

\* The score lists of n ranked players with scores lo .. MaxRankScore, the
\* players numbered by ascending score
RECURSIVE AscendingScores(_, _)
AscendingScores(n, lo) ==
  IF n = 0 THEN {<<>>}
  ELSE UNION {{<<v>> \o s : s \in AscendingScores(n - 1, v)} : v \in lo..MaxRankScore}

InitRank ==
  /\ games = <<>>
  /\ elo = [p \in RankedPlayers |-> BaseElo]
  /\ season_best = [p \in RankedPlayers |-> 0]
  /\ score \in AscendingScores(PopSize, 0)
  /\ rank = [p \in RankedPlayers |-> 0]
  /\ teams = <<>>
  /\ gameteams = <<>>
  /\ rules = DefaultSeasonRules
  /\ pc = [p \in Procs |-> "idle"]
  /\ queue = [p \in Procs |-> <<>>]
  /\ cursor = [p \in Procs |-> 0]
  /\ outcome = [p \in Procs |-> "returned"]
  /\ before = [p \in Procs |-> NoRatings]
  /\ decays = [p \in Procs |-> 0]

NextRank == ClassifyRanked

SpecRank == InitRank /\ [][NextRank]_vars

\* ------------------------------------------- team balancing of given ratings
TeamSize == 2
EloSpread == 2

BalancePlayers == 1..(2 * TeamSize)

BalanceElos == {1000, 3000} \cup BaseElo..(BaseElo + EloSpread)

\* One pending game with its players not yet on a side
InitBalance ==
  /\ games = << [date |-> 1, season |-> CurrentSeason, state |-> PENDING,
                 team1_score |-> 0, team2_score |-> 0,
                 roster |-> [p \in BalancePlayers |-> Unassigned]] >>
  /\ elo \in [BalancePlayers -> BalanceElos]
  /\ season_best = [p \in BalancePlayers |-> 0]
  /\ score = [p \in BalancePlayers |-> 0]
  /\ rank = [p \in BalancePlayers |-> 0]
  /\ teams = <<>>
  /\ gameteams = << <<0, 0>> >>
  /\ rules = DefaultSeasonRules
  /\ pc = [p \in Procs |-> "idle"]
  /\ queue = [p \in Procs |-> <<>>]
  /\ cursor = [p \in Procs |-> 0]
  /\ outcome = [p \in Procs |-> "returned"]
  /\ before = [p \in Procs |-> NoRatings]
  /\ decays = [p \in Procs |-> 0]

NextBalance ==
  \/ create_teams(1, 1)
  \/ ClearTeams(1, 1)

SpecBalance == InitBalance /\ [][NextBalance]_vars

\* ===================================================== properties checked
\* The stored games as a set (their dates are distinct), and the sequence
\* that lists them by date.
GameSet == {games[i] : i \in DOMAIN games}

GamesByDate ==
  [k \in DOMAIN games |->
     CHOOSE g \in GameSet : Cardinality({h \in GameSet : h.date < g.date}) = k - 1]

\* The elo replay as a function of a set of games G, from the values st
RECURSIVE Replay(_, _)
Replay(G, st) ==
  IF G = {} THEN st
  ELSE LET g == CHOOSE x \in G : \A y \in G : x.date <= y.date
           boundary == st.season # 0 /\ st.season # g.season
           e0 == IF boundary THEN [p \in Players |-> DecayedElo(st.elo[p])] ELSE st.elo
           b0 == IF boundary THEN [p \in Players |-> 0] ELSE st.best
           e1 == [p \in Players |-> EloAfterGame(g, e0, p)]
           b1 == [p \in Players |->
                    IF p \in DOMAIN g.roster THEN Max(b0[p], e1[p]) ELSE b0[p]]
       IN  Replay(G \ {g}, [elo |-> e1, best |-> b1, season |-> g.season])

Replayed ==
  LET st == Replay({g \in GameSet : can_score(g)},
                   [elo |-> [p \in Players |-> BaseElo],
                    best |-> [p \in Players |-> 0], season |-> 0])
  IN  IF st.season # CurrentSeason
      THEN [elo |-> [p \in Players |-> DecayedElo(st.elo[p])],
            best |-> [p \in Players |-> 0]]
      ELSE [elo |-> st.elo, best |-> st.best]

\* C1: after a completed pass every player's elo, season_best, score and
\* rank are what the set of stored games alone determines: the replay of the
\* scorable games by date from 1500, and the score and rank computed from
\* the games listed by date, whatever the insertion order, the ratings
\* before the pass and the number of earlier passes.
C1_PassIsFunctionOfGames ==
  (pc[1] = "idle" /\ outcome[1] = "ok") =>
    /\ elo = Replayed.elo
    /\ season_best = Replayed.best
    /\ score = [p \in Players |-> UpdatedScore(GamesByDate, p)]
    /\ rank = [p \in Players |-> AssignedRank(GamesByDate, rules, score, p)]

\* A completed pass over two scorable games inserted against their dates,
\* which started from ratings other than the initial ones
C1_Witness ==
  /\ pc[1] = "idle" /\ outcome[1] = "ok"
  /\ \E i, j \in DOMAIN games :
       /\ i < j /\ games[i].date > games[j].date
       /\ can_score(games[i]) /\ can_score(games[j])
  /\ \E p \in Players : elo[p] # BaseElo

\* The stored elo of team row t before a step (1500 for a row the step adds)
PriorTeamElo(t) == IF t \in DOMAIN teams THEN teams[t].elo ELSE BaseElo

\* C2: every processed game changes the stored elo of each side-1 player by
\* exactly the negation of the change of each side-2 player, and, with no
\* backup penalty, the stored elo of the side-1 team by exactly the negation
\* of the change of the side-2 team.
C2_ZeroSum ==
  [][ /\ EloGame(1) =>
           LET game == games[Head(queue[1])]
           IN  \A p \in Side(game, Team1), q \in Side(game, Team2) :
                 elo'[p] - elo[p] = -(elo'[q] - elo[q])
      /\ (TeamGame(1) /\ queue'[1] # queue[1]) =>
           LET t1 == gameteams'[Head(queue[1])][1]
               t2 == gameteams'[Head(queue[1])][2]
           IN  (teams'[t1].backup = {} /\ teams'[t2].backup = {}) =>
                 teams'[t1].elo - PriorTeamElo(t1)
                   = -(teams'[t2].elo - PriorTeamElo(t2)) ]_vars

C4_NoDecayWhenDisabled ==
  [][ (~rules.elo_decay /\ (EloDecay(1) \/ EloEnd(1))) =>
        (elo' = elo /\ season_best' = season_best) ]_vars

\* C5: when a pass has stopped on an exception, the stored elo, season_best,
\* score and rank of every player and team are those from before the pass.
C5_FailedPassRolledBack ==
  \A self \in Procs :
    (pc[self] = "idle" /\ outcome[self] = "raised") => ratings = before[self]

\* C6: when two calls have run on the same games and both have returned,
\* the stored elo and season_best are those of a single pass.
C6_SinglePassResult ==
  ((\A self \in Procs : pc[self] = "idle" /\ outcome[self] = "ok")) =>
    (elo = Replayed.elo /\ season_best = Replayed.best)

\* C7: after the classification every player whose value of the season's
\* statistic is below rank_min_value has no rank, whatever the score; so
\* when nobody qualifies nobody has a rank.
C7_NonQualifyingUnranked ==
  (pc[1] \in {"update_team_score", "team_loop"}) =>
    \A p \in Players :
      StatValue(games, rules.rank_statistic, p) < rules.rank_min_value
        => rank[p] = 0

\* A classification that ranked a qualifying player and left a player below
\* the minimum, with a positive score, without rank
C7_Witness ==
  /\ pc[1] = "update_team_score"
  /\ \E p \in Players :
       /\ StatValue(games, rules.rank_statistic, p) < rules.rank_min_value
       /\ score[p] > 0
  /\ \E q \in Players : rank[q] # 0

\* The keys -3 + i * 6 / (NumRanks - 2), i = 0 .. NumRanks - 3, that the
\* z-score of ranked player p is strictly above
KeysBelow(p) ==
  {i \in 0..(NumRanks - 3) :
     ZAboveNum(score, DOMAIN score, p, 6 * i - 3 * (NumRanks - 2))}

\* C8: a ranked player's rank is the one of the largest key strictly below
\* the z-score (key i carries rank i + 1): the rank NumRanks - 2 when the
\* z-score is above every key, none when it is not above the lowest, and
\* never one of the last two ranks.
C8_RankOfLargestKeyBelow ==
  (pc[1] = "classified") =>
    \A p \in DOMAIN rank :
      /\ rank[p] = IF KeysBelow(p) = {} THEN 0
                   ELSE 1 + CHOOSE i \in KeysBelow(p) : \A j \in KeysBelow(p) : j <= i
      /\ KeysBelow(p) = 0..(NumRanks - 3) => rank[p] = NumRanks - 2
      /\ rank[p] \notin {NumRanks - 1, NumRanks}

\* A classification with a player above every key, one between keys and one
\* not above the lowest key
C8_Witness ==
  /\ pc[1] = "classified"
  /\ \E p, q, r \in DOMAIN rank :
       /\ rank[p] = 0 /\ KeysBelow(p) = {}
       /\ rank[q] = NumRanks - 2
       /\ rank[r] \notin {0, NumRanks - 2}

\* The current season's games that count toward statistics
CountingGames ==
  {i \in DOMAIN games : games[i].season = CurrentSeason /\ can_score(games[i])}

\* The three statistics of player p over those games
EligibleStat(stat, p) ==
  CASE stat = "GP" -> CountGames(games, CountingGames, p)
    [] stat = "RW" -> CountWins(games, CountingGames, p)
    [] stat = "GW" ->
         Cardinality({i \in Played(games, CountingGames, p) :
                        IF p \in Side(games[i], Team1)
                        THEN games[i].team1_score > games[i].team2_score
                        ELSE games[i].team2_score > games[i].team1_score})

\* C9: for each of the statistics games played, games won and rounds won the
\* classification completes, and keeps exactly the players whose value of
\* the statistic over the current season's games that count toward
\* statistics is at least rank_min_value.
C9_QualifyingByCountingGames ==
  (pc[1] = "calculate_ranks") =>
    /\ ~RanksRaiseEarly
    /\ ~RanksRaiseLate(rules)
    /\ Qualifying(games, rules)
         = {p \in Players :
              EligibleStat(rules.rank_statistic, p) >= rules.rank_min_value}

\* C10: after the score update a player without a scorable approved game in
\* the current season has score 0, and any other player the season's scoring
\* function of the counters over exactly those games; an approved game that
\* is not scorable adds to no counter.
C10_ScoreFromCountingGames ==
  (pc[1] = "calculate_ranks") =>
    \A p \in Players :
      score[p] =
        IF Played(games, CountingGames, p) = {} THEN 0
        ELSE SeasonScore(rules, CountGames(games, CountingGames, p),
                         CountRounds(games, CountingGames, p),
                         CountWins(games, CountingGames, p), p)

\* The players of the game being balanced, the sides of one size they can
\* be split into, and the sum of the ratings of a side
BalancedGame == games[1]

HalfSides ==
  {T \in SUBSET (DOMAIN BalancedGame.roster) :
     2 * Cardinality(T) = Cardinality(DOMAIN BalancedGame.roster)}

Others(T) == (DOMAIN BalancedGame.roster) \ T

SumElo(T) == SumOver(elo, T)

TeamsCreated == \A p \in DOMAIN BalancedGame.roster : BalancedGame.roster[p] # Unassigned

\* C11: the two sides create_equal_teams gives a game of 2n players are
\* disjoint, of n players each, together all the players, and no split into
\* two sides of n has a smaller absolute difference of mean ratings; for the
\* ratings 1000, 1000, 1000, 3000 the difference is 1000.
C11_MinimalMeanGap ==
  TeamsCreated =>
    LET side1 == Side(BalancedGame, Team1)
        side2 == Side(BalancedGame, Team2)
        n == Cardinality(side1)
    IN  /\ side1 \cap side2 = {}
        /\ side1 \in HalfSides /\ side2 \in HalfSides
        /\ side1 \cup side2 = DOMAIN BalancedGame.roster
        /\ \A T \in HalfSides :
             Abs(SumElo(side1) - SumElo(side2)) <= Abs(SumElo(T) - SumElo(Others(T)))
        /\ (n = 2 /\ \E d \in side1 \cup side2 :
                       /\ elo[d] = 3000
                       /\ \A p \in (side1 \cup side2) \ {d} : elo[p] = 1000)
             => Abs(SumElo(side1) - SumElo(side2)) = 1000 * n

\* The gap create_equal_teams compares splits by, and the enumeration order
\* of the combinations: A comes before B when the lowest player that is in
\* only one of them is in A
KeyGap(T) ==
  Abs(calculate_team_elo(elo, T) - calculate_team_elo(elo, Others(T)))

ComesBefore(A, B) ==
  /\ A # B
  /\ (CHOOSE x \in (A \ B) \cup (B \ A) :
        \A y \in (A \ B) \cup (B \ A) : x <= y) \in A

FirstBestSide ==
  CHOOSE T \in HalfSides :
    /\ \A U \in HalfSides : KeyGap(T) <= KeyGap(U)
    /\ \A U \in HalfSides : (U # T /\ KeyGap(U) = KeyGap(T)) => ComesBefore(T, U)

\* C12: every call of the balancer on the same players and ratings gives the
\* same partition, the first in the enumeration order of the combinations
\* among those with the smallest gap; a call on a game that already has the
\* teams of an earlier call changes nothing.
C12_SamePartitionEveryCall ==
  [][ create_teams(1, 1) =>
        /\ Side(games'[1], Team1) = FirstBestSide
        /\ Side(games'[1], Team2) = Others(FirstBestSide)
        /\ TeamsCreated => games' = games ]_vars

\* Teams created where two different splits have the smallest gap
C12_Witness ==
  /\ TeamsCreated
  /\ Side(BalancedGame, Team1) = FirstBestSide
  /\ \E U \in HalfSides :
       /\ U # FirstBestSide /\ U # Others(FirstBestSide)
       /\ KeyGap(U) = KeyGap(FirstBestSide)
  /\ \E U \in HalfSides : KeyGap(U) # KeyGap(FirstBestSide)

\* C13: the team find_or_create gives for a side of a game is of the season
\* asked for and has exactly the players of the side as members, never
\* more; a team that did not exist before is virtual; and a virtual team is
\* given only when no other team of the season has exactly these members.
C13_FindOrCreateExactTeam ==
  [][ (TeamGame(1) /\ queue'[1] # queue[1]) =>
        LET g == Head(queue[1])
        IN  \A side \in {1, 2} :
              LET t == gameteams'[g][side]
                  players == Side(games[g], side)
              IN  /\ teams'[t].season = CurrentSeason
                  /\ teams'[t].players = players
                  /\ t \notin DOMAIN teams => teams'[t].virtual
                  /\ teams'[t].virtual =>
                       ~ \E j \in DOMAIN teams :
                           /\ teams[j].season = CurrentSeason
                           /\ teams[j].players = players
                           /\ ~teams[j].virtual ]_vars

\* C14: in every state, also while calls run concurrently, no two teams of
\* one season have exactly the same members.
C14_TeamMembersUnique ==
  \A i, j \in DOMAIN teams :
    (i # j /\ teams[i].season = teams[j].season) => teams[i].players # teams[j].players

\* The team row t as a TeamGame step finds it (a row the step adds is new)
PriorTeam(t, players) ==
  IF t \in DOMAIN teams THEN teams[t] ELSE NewTeam(CurrentSeason, players)

\* C15: in the team update the change of a team for a game is scaled by
\* 1 - 0.2245 exactly when that team has strictly more rounds than the other,
\* has a member flagged backup, and its change is positive; in every other
\* case, so for the losing side and for equal round counts, both changes are
\* applied as they are.
C15_PenaltyOnlyForWinnerWithBackup ==
  [][ (TeamGame(1) /\ queue'[1] # queue[1]) =>
        LET g == Head(queue[1])
            game == games[g]
            t1 == gameteams'[g][1]
            t2 == gameteams'[g][2]
            team1 == PriorTeam(t1, Side(game, Team1))
            team2 == PriorTeam(t2, Side(game, Team2))
            change1 == team1_elo_change(game.team1_score, game.team2_score,
                                        team1.elo, team2.elo)
            change2 == -change1
            scaled1 == /\ game.team1_score > game.team2_score
                       /\ team1.backup # {}
                       /\ change1 > 0
            scaled2 == /\ game.team2_score > game.team1_score
                       /\ team2.backup # {}
                       /\ change2 > 0
        IN  /\ teams'[t1].elo =
                 StoreInt(team1.elo, IF scaled1 THEN Penalized(change1) ELSE change1)
            /\ teams'[t2].elo =
                 StoreInt(team2.elo, IF scaled2 THEN Penalized(change2) ELSE change2) ]_vars

\* ------------------------------------------------------------------- C16
UnresolvedApproved ==
  {i \in DOMAIN games :
     games[i].state = APPROVED /\ games[i].season \in {0, NoRulesSeason}}

LaterStages == {"update_score", "calculate_ranks", "update_team_score", "team_loop"}

\* C16: while an approved game has no resolvable ruleset (no ruleset of its
\* own and no season, or a season without game rules), a save that starts
\* the recompute pass ends with an exception: the pass never leaves the elo
\* loop for the later stages, it leaves the loop only by raising, no step
\* completes a pass normally, and saving such a game itself raises.
C16_UnresolvedRulesetFails ==
  [][ UnresolvedApproved # {} =>
        /\ pc[1] \notin LaterStages
        /\ (pc[1] = "elo_loop" /\ pc'[1] # "elo_loop")
             => (pc'[1] = "idle" /\ outcome'[1] = "raised")
        /\ (outcome[1] = "running" => outcome'[1] \in {"running", "raised"})
        /\ \A i \in DOMAIN games' :
             (/\ games'[i].state = APPROVED
              /\ games'[i].season = NoRulesSeason
              /\ (i \notin DOMAIN games \/ games[i] # games'[i]))
               => (pc'[1] = "idle" /\ outcome'[1] = "raised")
    ]_vars

\* A pass that scored a game and then failed at a game without ruleset
C16_Witness ==
  /\ UnresolvedApproved # {}
  /\ pc[1] = "idle"
  /\ outcome[1] = "raised"
  /\ \E p \in Players : elo[p] # BaseElo
  /\ \E i \in DOMAIN games : games[i].season = 0 /\ games[i].state = APPROVED

\* ------------------------------------------------------------------- C17
\* The seasons of the scorable games, by date
ProcessedSeasons ==
  LET G == {g \in GameSet : can_score(g)}
  IN  [k \in 1..Cardinality(G) |->
         (CHOOSE g \in G : Cardinality({h \in G : h.date < g.date}) = k - 1).season]

SeasonChanges(seq) == Cardinality({k \in 2..Len(seq) : seq[k] # seq[k - 1]})

\* C17: one elo replay runs the decay once for every processed game whose
\* season differs from the season of the game processed before it, and once
\* more after the loop exactly when the season of the last processed game is
\* not the current season; it runs no other decay.
C17_DecayOncePerSeasonChange ==
  /\ pc[1] = "elo_loop" =>
       LET done == SubSeq(ProcessedSeasons, 1, Len(ProcessedSeasons) - Len(queue[1]))
           seen == IF cursor[1] = 0 THEN done ELSE Append(done, cursor[1])
       IN  decays[1] = SeasonChanges(seen)
  /\ pc[1] = "update_score" =>
       LET all == ProcessedSeasons
       IN  decays[1] = SeasonChanges(all)
                         + (IF all = <<>> \/ all[Len(all)] # CurrentSeason THEN 1 ELSE 0)

\* A replay over three games that changed season twice in the loop and ended
\* in the current season
C17_Witness ==
  /\ pc[1] = "update_score"
  /\ decays[1] = 2
  /\ Len(ProcessedSeasons) = 3
  /\ ProcessedSeasons[3] = CurrentSeason

\* ------------------------------------------------------------------- C18
\* No statement of the pipeline runs in the step
NothingRuns ==
  /\ ratings' = ratings
  /\ \A i \in DOMAIN gameteams : gameteams'[i] = gameteams[i]
  /\ pc' = pc
  /\ queue' = queue

\* C18: when a game is saved (created or updated) or one of its players is
\* moved to another side, and the game as then stored cannot be scored (its
\* state is below APPROVED, its rounds or its number of players are outside
\* the ruleset, or a player is unassigned), no player's elo, season_best,
\* score or rank and no team's elo or season_best changes and no stage of
\* the pipeline is started.
C18_UnscorableSaveRunsNothing ==
  [][ /\ \A g \in EditGames :
           (CreateGame(1, g) /\ ~can_score(g)) => NothingRuns
      /\ \A i \in 1..MaxGames :
           ((\E st \in GameStates : SaveGame(1, i, st)) /\ ~can_score(games'[i]))
             => NothingRuns
      /\ \A i \in 1..MaxGames :
           ((\E p \in Players, t \in {Unassigned, Team1, Team2} : SetTeam(i, p, t))
              /\ ~can_score(games'[i]))
             => NothingRuns
    ]_vars

\* An approved game with an unassigned player was saved after an earlier
\* pass had moved the ratings
C18_Witness ==
  /\ pc[1] = "idle"
  /\ outcome[1] = "returned"
  /\ \E p \in Players : elo[p] # BaseElo
  /\ \E i \in DOMAIN games :
       /\ games[i].state = APPROVED
       /\ Side(games[i], Unassigned) # {}

\* ------------------------------------------------------------------- C19
\* C19: whenever no recompute is running, every player's stored elo and
\* season_best are those of the full replay of the games that can be scored
\* now, also after a game stopped being scorable (its state was lowered
\* below APPROVED or its rounds or roster were edited).
C19_StoredRatingsAreFullReplay ==
  pc[1] = "idle" =>
    /\ elo = Replayed.elo
    /\ season_best = Replayed.best

\* ------------------------------------------------------------------- C20
\* The k-th scorable game by date
ScorableAt(k) ==
  LET G == {g \in GameSet : can_score(g)}
  IN  CHOOSE g \in G : Cardinality({h \in G : h.date < g.date}) = k - 1

\* The elo of every player after the first k scorable games, with the set of
\* ratings each player had right after a game since the last decay
RECURSIVE History(_)
History(k) ==
  IF k = 0
  THEN [elo |-> [p \in Players |-> BaseElo], seen |-> [p \in Players |-> {}],
        season |-> 0]
  ELSE LET prev == History(k - 1)
           g == ScorableAt(k)
           boundary == prev.season # 0 /\ prev.season # g.season
           e0 == IF boundary THEN [p \in Players |-> DecayedElo(prev.elo[p])]
                 ELSE prev.elo
           s0 == IF boundary THEN [p \in Players |-> {}] ELSE prev.seen
           e1 == [p \in Players |-> EloAfterGame(g, e0, p)]
       IN  [elo |-> e1,
            seen |-> [p \in Players |->
                        IF p \in DOMAIN g.roster THEN s0[p] \cup {e1[p]} ELSE s0[p]],
            season |-> g.season]

Largest(S) == CHOOSE x \in S : \A y \in S : y <= x

\* The number of games the running elo loop has processed
Processed == Len(ProcessedSeasons) - Len(queue[1])

JustProcessed ==
  /\ pc[1] = "elo_loop"
  /\ Processed >= 1
  /\ cursor[1] = ScorableAt(Processed).season

\* C20: in the elo replay, right after a game has been processed, the
\* season_best of every player who played since the last decay (or since
\* the reset) is the largest rating that player had right after a game since
\* then, so it is at least the player's elo; the other players' season_best
\* is 0. After a single 2-0 game of two players the winner's season_best is
\* the winner's new elo, above 1500.
C20_SeasonBestIsRunningMax ==
  JustProcessed =>
    LET h == History(Processed)
        g == ScorableAt(Processed)
    IN  /\ \A p \in Players :
             IF h.seen[p] = {} THEN season_best[p] = 0
             ELSE /\ season_best[p] = Largest(h.seen[p])
                  /\ season_best[p] >= elo[p]
        /\ \A p \in DOMAIN g.roster : h.seen[p] # {} /\ elo[p] \in h.seen[p]
        /\ (Processed = 1 /\ g.team1_score = 2 /\ g.team2_score = 0
              /\ Cardinality(DOMAIN g.roster) = 2)
             => \A p \in Side(g, Team1) :
                  season_best[p] = elo[p] /\ elo[p] > BaseElo

\* A player whose rating after the last game is below the best since the
\* last decay
C20_Witness ==
  /\ JustProcessed
  /\ \E p \in DOMAIN ScorableAt(Processed).roster :
       /\ Cardinality(History(Processed).seen[p]) >= 2
       /\ season_best[p] > elo[p]
====
